---- MODULE Spec2Model ----
(***************************************************************************)
(* The multiplayer snake arena of src/worldconquest/server.js: one default *)
(* room, socket handlers join_game / player_move / disconnect, the tick    *)
(* loop updateGame, bot population management and the bot AI.              *)
(*                                                                         *)
(* The room is 20 x 20 with 20 player slots in the source.  The model      *)
(* keeps the code's arithmetic but scales both numbers down (tileCount,    *)
(* maxPlayers below) so that every random placement can be enumerated.     *)
(*                                                                         *)
(* src/server/src/multiplayer.ts holds the same handlers and updateGame    *)
(* without bots, spectating and manageBots.                                *)
(***************************************************************************)
EXTENDS Integers, Sequences, FiniteSets, TLC

\* ---------------------------------------------------------------- bounds
\* Grid side; 20 in createRoom, scaled down.
tileCount == 2
\* Room capacity; 20 in createRoom (and the literal 20 of join_game), scaled down.
\* Three entities are the least that lets one head meet two other bodies.
maxPlayers == 3
\* Number of connections explored; every connection has a socket id of its own.
NumSockets == 2
\* Total number of timer firings explored.
MaxTicks == 2

\* ------------------------------------------------------------- constants
\* COLORS.length
NumColors == 20

\* null: ids and timer handles are tuples, null is the empty one.
NULL == << >>

Sockets == 1..NumSockets
Coords == 0..(tileCount - 1)
Cells == [x : Coords, y : Coords]

\* The payloads of player_move: {dx, dy} with at most one axis non-zero.
MoveInputs ==
  { [dx |-> 0, dy |-> 0], [dx |-> 1, dy |-> 0], [dx |-> -1, dy |-> 0],
    [dx |-> 0, dy |-> 1], [dx |-> 0, dy |-> -1] }

SocketId(s) == <<"socket", s>>
BotId(n) == <<"bot", n>>

Min(a, b) == IF a < b THEN a ELSE b
Abs(a) == IF a < 0 THEN -a ELSE a

\* ------------------------------------------------------------ events
Ev(name, id, killer) == [ev |-> name, id |-> id, killer |-> killer]

\* ------------------------------------------------- Map<string, Player>
\* room.players is a Map: a sequence of players in insertion order, one per id.
MapIndex(ps, id) ==
  IF \E i \in 1..Len(ps) : ps[i].id = id
    THEN CHOOSE i \in 1..Len(ps) : ps[i].id = id
    ELSE 0

MapHas(ps, id) == MapIndex(ps, id) # 0

\* Map.set: an existing key keeps its position, a new key is appended.
MapSet(ps, p) ==
  IF MapHas(ps, p.id)
    THEN [ps EXCEPT ![MapIndex(ps, p.id)] = p]
    ELSE Append(ps, p)

\* Map.delete
MapDelete(ps, id) ==
  LET keep(p) == p.id # id IN SelectSeq(ps, keep)

IsHuman(p) == ~p.isBot
IsBot(p) == p.isBot
HumanPlayers(ps) == SelectSeq(ps, IsHuman)
Bots(ps) == SelectSeq(ps, IsBot)

\* ------------------------------------------------------------ createRoom
InitFoods ==
  << [x |-> (3 * tileCount) \div 4, y |-> (3 * tileCount) \div 4, type |-> "apple"],
     [x |-> tileCount \div 4, y |-> tileCount \div 4, type |-> "banana"] >>

VARIABLES
  players,     \* room.players
  foods,       \* room.foods
  gameLoop,    \* room.gameLoop: a timer handle, or NULL
  timers,      \* the interval timers that are active in the runtime
  botCounter,  \* room.botCounter
  conn,        \* per socket id: "new" (not yet connected), "open" or "closed"
  emitted,     \* the events the last handler emitted, in order
  op,          \* the last handler that ran
  ticks        \* number of timer firings so far

vars == <<players, foods, gameLoop, timers, botCounter, conn, emitted, op, ticks>>

Init ==
  /\ players = <<>>
  /\ foods = InitFoods
  /\ gameLoop = NULL
  /\ timers = {}
  /\ botCounter = 0
  /\ conn = [s \in Sockets |-> "new"]
  /\ emitted = <<>>
  /\ op = [name |-> "init", sock |-> 0]
  /\ ticks = 0

\* io.on('connection'): a new socket arrives; only a log line is written.
Connect(s) ==
  /\ conn[s] = "new"
  /\ conn' = [conn EXCEPT ![s] = "open"]
  /\ emitted' = <<>>
  /\ op' = [name |-> "connection", sock |-> s]
  /\ UNCHANGED <<players, foods, gameLoop, timers, botCounter, ticks>>

\* ------------------------------------------------------------- spawnBot
\* rs = [players, botCounter, emitted]; c is the random cell drawn.
spawnBot(rs, c) ==
  LET n == rs.botCounter + 1
      bot == [ id |-> BotId(n),
               snake |-> << c >>,
               direction |-> [dx |-> 1, dy |-> 0],
               color |-> Len(rs.players) % NumColors,
               score |-> 0,
               kills |-> 0,
               alive |-> TRUE,
               isBot |-> TRUE,
               spectating |-> FALSE ]
  IN [ players |-> MapSet(rs.players, bot),
       botCounter |-> n,
       emitted |-> Append(rs.emitted, Ev("player_joined", bot.id, NULL)) ]

\* The loop 'for (i = 0; i < n; i++) spawnBot(room, io)': every outcome of
\* the n random placements.
RECURSIVE SpawnBots(_, _)
SpawnBots(rs, n) ==
  IF n <= 0 THEN {rs}
  ELSE UNION { SpawnBots(spawnBot(rs, c), n - 1) : c \in Cells }

\* ----------------------------------------------------------- manageBots
\* Mutant: one bot too few is requested.
BotsToAdd_OneShort(neededBots, totalPlayers) ==
  Min(neededBots, maxPlayers - totalPlayers) - 1

\* Math.min(neededBots, room.maxPlayers - totalPlayers)
BotsToAdd(neededBots, totalPlayers) == Min(neededBots, maxPlayers - totalPlayers)

\* Mutant: the joining human is counted twice.
NeededBots_CountsTwice(ps) == maxPlayers - 2 * Len(HumanPlayers(ps))

\* room.maxPlayers - humanPlayers.length
NeededBots(ps) == maxPlayers - Len(HumanPlayers(ps))

\* The loop that deletes bots[0 .. n-1] and announces each removal.
RECURSIVE RemoveBots(_, _, _, _)
RemoveBots(rs, bots, i, n) ==
  IF i > n THEN rs
  ELSE RemoveBots(
         [rs EXCEPT !.players = MapDelete(rs.players, bots[i].id),
                    !.emitted = Append(rs.emitted, Ev("player_left", bots[i].id, NULL))],
         bots, i + 1, n)

\* rs = [players, botCounter, emitted]; the set of outcomes of manageBots.
manageBots(rs) ==
  LET bots == Bots(rs.players)
      totalPlayers == Len(rs.players)
      neededBots == NeededBots(rs.players)
      added == IF totalPlayers < maxPlayers
                 THEN SpawnBots(rs, BotsToAdd(neededBots, totalPlayers))
                 ELSE {rs}
  IN { IF Len(bots) > neededBots
         THEN RemoveBots(r, bots, 1, Len(bots) - neededBots)
         ELSE r : r \in added }

\* -------------------------------------------------------- startGameLoop
\* setInterval returns a handle that no active timer has.
NewTimer ==
  LET n == CHOOSE t \in 1..(Cardinality(timers) + 1) : <<"timer", t>> \notin timers
  IN <<"timer", n>>

\* ------------------------------------------------------------ join_game
\* Mutant: '>' instead of '>='.
RoomFull_Strict(ps) == Len(ps) > maxPlayers

\* Mutant: the room is never found full.
RoomFull_Never(ps) == FALSE

\* room.players.size >= 20
RoomFull(ps) == Len(ps) >= maxPlayers

NewPlayer(s, c, size) ==
  [ id |-> SocketId(s),
    snake |-> << c >>,
    direction |-> [dx |-> 0, dy |-> 0],
    color |-> size % NumColors,
    score |-> 0,
    kills |-> 0,
    alive |-> TRUE,
    isBot |-> FALSE,
    spectating |-> FALSE ]

JoinGame(s) ==
  /\ conn[s] = "open"
  /\ op' = [name |-> "join_game", sock |-> s]
  /\ IF RoomFull(players)
       THEN /\ emitted' = << Ev("room_full", SocketId(s), NULL) >>
            /\ UNCHANGED <<players, foods, gameLoop, timers, botCounter>>
       ELSE \E c \in Cells :
              LET player == NewPlayer(s, c, Len(players))
                  rs0 == [ players |-> MapSet(players, player),
                           botCounter |-> botCounter,
                           emitted |-> << Ev("game_joined", player.id, NULL),
                                          Ev("player_joined", player.id, NULL) >> ]
              IN \E rs \in manageBots(rs0) :
                   /\ players' = rs.players
                   /\ botCounter' = rs.botCounter
                   /\ emitted' = rs.emitted
                   /\ IF gameLoop = NULL
                        THEN /\ gameLoop' = NewTimer
                             /\ timers' = timers \cup {NewTimer}
                        ELSE UNCHANGED <<gameLoop, timers>>
                   /\ UNCHANGED foods
  /\ UNCHANGED <<conn, ticks>>

\* ---------------------------------------------------------- player_move
\* Mutant: the alive test is dropped.
MoveIgnored_NoAliveTest(ps, id) == ~MapHas(ps, id)

\* !player || !player.alive
MoveIgnored(ps, id) == ~MapHas(ps, id) \/ ~ps[MapIndex(ps, id)].alive

\* Mutant: only the x axis is tested.
Reverses_XOnly(d, cur) == d.dx # 0 /\ cur.dx # 0

\* The 'prevent 180-degree turns' test.
Reverses(d, cur) ==
  \/ (d.dx # 0 /\ cur.dx # 0)
  \/ (d.dy # 0 /\ cur.dy # 0)

PlayerMove(s, d) ==
  /\ conn[s] = "open"
  /\ op' = [name |-> "player_move", sock |-> s]
  /\ emitted' = <<>>
  /\ IF MoveIgnored(players, SocketId(s))
       THEN UNCHANGED players
       ELSE LET i == MapIndex(players, SocketId(s)) IN
            IF Reverses(d, players[i].direction)
              THEN UNCHANGED players
              ELSE players' = [players EXCEPT ![i].direction = d]
  /\ UNCHANGED <<foods, gameLoop, timers, botCounter, conn, ticks>>

\* ----------------------------------------------------------- disconnect
\* Mutant: all players are counted instead of the humans.
StopLoop_AllPlayers(ps, loop) == Len(ps) = 0 /\ loop # NULL

\* Mutant: the loop is never stopped.
StopLoop_Never(ps, loop) == FALSE

\* humanPlayers.length === 0 && room.gameLoop
StopLoop(ps, loop) == Len(HumanPlayers(ps)) = 0 /\ loop # NULL

Disconnect(s) ==
  /\ conn[s] = "open"
  /\ conn' = [conn EXCEPT ![s] = "closed"]
  /\ op' = [name |-> "disconnect", sock |-> s]
  /\ LET rs0 == [ players |-> MapDelete(players, SocketId(s)),
                  botCounter |-> botCounter,
                  emitted |-> << Ev("player_left", SocketId(s), NULL) >> ]
     IN \E rs \in manageBots(rs0) :
          /\ botCounter' = rs.botCounter
          /\ emitted' = rs.emitted
          /\ IF StopLoop(rs.players, gameLoop)
               THEN /\ timers' = timers \ {gameLoop}
                    /\ gameLoop' = NULL
                    /\ players' = <<>>
               ELSE /\ players' = rs.players
                    /\ UNCHANGED <<gameLoop, timers>>
  /\ UNCHANGED <<foods, ticks>>

\* ----------------------------------------------------------- updateGame
\* Mutant: dead players are moved as well.
Moving_NoAliveTest(p) == ~(p.direction.dx = 0 /\ p.direction.dy = 0)

\* The negation of the early return that opens the forEach body.
Moving(p) == p.alive /\ ~(p.direction.dx = 0 /\ p.direction.dy = 0)

NewHead(p) ==
  [x |-> p.snake[1].x + p.direction.dx, y |-> p.snake[1].y + p.direction.dy]

\* Mutant: '>' instead of '>=' on the upper edges.
OutOfBounds_Strict(c) ==
  c.x < 0 \/ c.x > tileCount \/ c.y < 0 \/ c.y > tileCount

\* The wall test: newHead.x < 0 || newHead.x >= tileCount || ...
OutOfBounds(c) ==
  c.x < 0 \/ c.x >= tileCount \/ c.y < 0 \/ c.y >= tileCount

\* Mutant: the scan starts one segment too late.
SelfCollision_SkipsNeck(snake, h) ==
  \E k \in 3..Len(snake) : h.x = snake[k].x /\ h.y = snake[k].y

\* The self-collision loop, which starts at snake[1] (the cell after the head).
SelfCollision(snake, h) ==
  \E k \in 2..Len(snake) : h.x = snake[k].x /\ h.y = snake[k].y

\* Mutant: only the head of the other snake is compared.
SegmentHits_HeadOnly(snake, h) ==
  IF h.x = snake[1].x /\ h.y = snake[1].y THEN 1 ELSE 0

\* Number of segments of a snake that equal h.
SegmentHits(snake, h) ==
  Cardinality({ k \in 1..Len(snake) : h.x = snake[k].x /\ h.y = snake[k].y })

\* Mutant: dead players are obstacles as well.
IsObstacle_IgnoresAlive(ps, i, j) == ps[j].id # ps[i].id

\* Whether otherPlayer (at index j) is tested against player i's new head.
IsObstacle(ps, i, j) == ps[j].id # ps[i].id /\ ps[j].alive

\* Mutant: bots are marked spectating as well.
Die_AlwaysSpectates(ts, i, killer) ==
  [ts EXCEPT !.players[i].alive = FALSE,
             !.players[i].spectating = TRUE,
             !.emitted = Append(@, Ev("player_died", ts.players[i].id, killer))]

\* player.alive = false; if (!player.isBot) player.spectating = true; emit player_died
Die(ts, i, killer) ==
  [ts EXCEPT !.players[i].alive = FALSE,
             !.players[i].spectating = IF ts.players[i].isBot THEN @ ELSE TRUE,
             !.emitted = Append(@, Ev("player_died", ts.players[i].id, killer))]

\* The inner forEach over the other players: each matching segment of an alive
\* other player kills player i, records the killer and increments its kills.
\* acc = [players, killedBy, dead].
RECURSIVE OtherCollisions(_, _, _, _)
OtherCollisions(acc, i, h, j) ==
  IF j > Len(acc.players) THEN acc
  ELSE LET hits == IF IsObstacle(acc.players, i, j)
                     THEN SegmentHits(acc.players[j].snake, h) ELSE 0
       IN OtherCollisions(
            IF hits > 0
              THEN [ players |-> [acc.players EXCEPT ![j].kills = @ + hits],
                     killedBy |-> acc.players[j].id,
                     dead |-> TRUE ]
              ELSE acc,
            i, h, j + 1)

\* Index of the first food at h, or 0.
FoodAt(fs, h) ==
  IF \E k \in 1..Len(fs) : h.x = fs[k].x /\ h.y = fs[k].y
    THEN CHOOSE k \in 1..Len(fs) :
           /\ h.x = fs[k].x /\ h.y = fs[k].y
           /\ \A m \in 1..(k - 1) : ~(h.x = fs[m].x /\ h.y = fs[m].y)
    ELSE 0

\* Mutant: the eaten food is removed instead of replaced.
RespawnFood_Removes(fs, k, c) ==
  SubSeq(fs, 1, k - 1) \o SubSeq(fs, k + 1, Len(fs))

\* Mutant: the replacement is always an apple.
RespawnFood_ForgetsType(fs, k, c) ==
  [fs EXCEPT ![k] = [x |-> c.x, y |-> c.y, type |-> "apple"]]

\* room.foods[i] = {x: random, y: random, type: room.foods[i].type}
RespawnFood(fs, k, c) ==
  [fs EXCEPT ![k] = [x |-> c.x, y |-> c.y, type |-> fs[k].type]]

\* Mutant: the tail is never popped.
Advance_NeverPops(snake, h, ateFood) == << h >> \o snake

\* Mutant: the tail is popped after a meal as well.
Advance_AlwaysPops(snake, h, ateFood) ==
  << h >> \o SubSeq(snake, 1, Len(snake) - 1)

\* snake.unshift(newHead); if (!ateFood) snake.pop()
Advance(snake, h, ateFood) ==
  IF ateFood THEN << h >> \o snake
  ELSE << h >> \o SubSeq(snake, 1, Len(snake) - 1)

\* The body of room.players.forEach for the player at index i: the set of
\* outcomes (one per random food cell when a food is eaten).
\* ts = [players, foods, emitted].
StepPlayer(ts, i) ==
  LET p == ts.players[i]
      h == NewHead(p)
  IN IF ~Moving(p) THEN {ts}
     ELSE IF OutOfBounds(h) THEN {Die(ts, i, NULL)}
     ELSE IF SelfCollision(p.snake, h) THEN {Die(ts, i, NULL)}
     ELSE LET oc == OtherCollisions(
                      [players |-> ts.players, killedBy |-> NULL, dead |-> FALSE],
                      i, h, 1)
          IN IF oc.dead
               THEN {Die([ts EXCEPT !.players = oc.players], i, oc.killedBy)}
               ELSE LET k == FoodAt(ts.foods, h)
                    IN IF k = 0
                         THEN {[ts EXCEPT !.players[i].snake = Advance(p.snake, h, FALSE)]}
                         ELSE {[ts EXCEPT !.players[i].snake = Advance(p.snake, h, TRUE),
                                          !.players[i].score = @ + 1,
                                          !.foods = RespawnFood(ts.foods, k, c)]
                                : c \in Cells}

\* Mutant: the players are stepped in reverse insertion order.
RECURSIVE MoveAll_Backwards(_, _)
MoveAll_Backwards(ts, i) ==
  IF i > Len(ts.players) THEN {ts}
  ELSE UNION { MoveAll_Backwards(t, i + 1) :
                 t \in StepPlayer(ts, Len(ts.players) + 1 - i) }

\* room.players.forEach(...) in insertion order, from index i on.
RECURSIVE MoveAll(_, _)
MoveAll(ts, i) ==
  IF i > Len(ts.players) THEN {ts}
  ELSE UNION { MoveAll(t, i + 1) : t \in StepPlayer(ts, i) }

\* ---------------------------------------------------------- updateBotAI
Dist(head, f) == Abs(head.x - f.x) + Abs(head.y - f.y)

\* Mutant: 'dist <= minDist', the last of the nearest foods wins.
RECURSIVE NearestFrom_LastWins(_, _, _, _)
NearestFrom_LastWins(fs, head, best, k) ==
  IF k > Len(fs) THEN best
  ELSE NearestFrom_LastWins(fs, head,
                            IF Dist(head, fs[k]) <= Dist(head, fs[best]) THEN k ELSE best,
                            k + 1)

\* Index of the food the scan 'if (dist < minDist)' ends with.
RECURSIVE NearestFrom(_, _, _, _)
NearestFrom(fs, head, best, k) ==
  IF k > Len(fs) THEN best
  ELSE NearestFrom(fs, head,
                   IF Dist(head, fs[k]) < Dist(head, fs[best]) THEN k ELSE best,
                   k + 1)

NearestFood(fs, head) == NearestFrom(fs, head, 1, 2)

\* 'Choose direction (prefer larger distance)'
PreferredDirection(cur, dx, dy) ==
  IF Abs(dx) > Abs(dy)
    THEN IF dx > 0 /\ cur.dx # -1 THEN [dx |-> 1, dy |-> 0]
         ELSE IF dx < 0 /\ cur.dx # 1 THEN [dx |-> -1, dy |-> 0]
         ELSE cur
    ELSE IF dy > 0 /\ cur.dy # -1 THEN [dx |-> 0, dy |-> 1]
         ELSE IF dy < 0 /\ cur.dy # 1 THEN [dx |-> 0, dy |-> -1]
         ELSE cur

\* Mutant: the reversal of cur is not filtered out.
Alternatives_All(cur) ==
  << [dx |-> 0, dy |-> 1], [dx |-> 0, dy |-> -1],
     [dx |-> 1, dy |-> 0], [dx |-> -1, dy |-> 0] >>

\* The alternatives in source order, without the reversal of cur.
Alternatives(cur) ==
  LET notReverse(d) == ~(d.dx = -cur.dx /\ d.dy = -cur.dy)
  IN SelectSeq(<< [dx |-> 0, dy |-> 1], [dx |-> 0, dy |-> -1],
                  [dx |-> 1, dy |-> 0], [dx |-> -1, dy |-> 0] >>, notReverse)

Shift(head, d) == [x |-> head.x + d.dx, y |-> head.y + d.dy]

\* Mutant: the first alternative is taken without the bounds test.
FirstInBounds_Untested(alts, head, k, fallback) ==
  IF k > Len(alts) THEN fallback ELSE alts[k]

\* The first alternative that stays in bounds, else the direction chosen so far.
RECURSIVE FirstInBounds(_, _, _, _)
FirstInBounds(alts, head, k, fallback) ==
  IF k > Len(alts) THEN fallback
  ELSE IF ~OutOfBounds(Shift(head, alts[k])) THEN alts[k]
  ELSE FirstInBounds(alts, head, k + 1, fallback)

\* The new direction of one bot.
BotDirection(bot, fs) ==
  LET head == bot.snake[1]
      f == fs[NearestFood(fs, head)]
      pref == PreferredDirection(bot.direction, f.x - head.x, f.y - head.y)
  IN IF OutOfBounds(Shift(head, pref))
       THEN FirstInBounds(Alternatives(bot.direction), head, 1, pref)
       ELSE pref

\* Mutant: dead bots are dropped from the room.
updateBotAI_DropsDeadBots(ps, fs) ==
  LET stays(p) == ~p.isBot \/ p.alive
      qs == SelectSeq(ps, stays)
  IN [i \in 1..Len(qs) |->
        IF qs[i].isBot /\ Len(qs[i].snake) # 0
          THEN [qs[i] EXCEPT !.direction = BotDirection(qs[i], fs)]
          ELSE qs[i]]

updateBotAI(ps, fs) ==
  [i \in 1..Len(ps) |->
     IF ps[i].isBot /\ ps[i].alive /\ Len(ps[i].snake) # 0
       THEN [ps[i] EXCEPT !.direction = BotDirection(ps[i], fs)]
       ELSE ps[i]]

\* The interval callback: updateGame(room, io).
Tick ==
  /\ timers # {}
  /\ ticks < MaxTicks
  /\ ticks' = ticks + 1
  /\ op' = [name |-> "tick", sock |-> 0]
  /\ \E ts \in MoveAll([players |-> players, foods |-> foods, emitted |-> <<>>], 1) :
       /\ players' = updateBotAI(ts.players, ts.foods)
       /\ foods' = ts.foods
       /\ emitted' = Append(ts.emitted, Ev("game_update", NULL, NULL))
  /\ UNCHANGED <<gameLoop, timers, botCounter, conn>>

Next ==
  \/ \E s \in Sockets : Connect(s)
  \/ \E s \in Sockets : JoinGame(s)
  \/ \E s \in Sockets, d \in MoveInputs : PlayerMove(s, d)
  \/ \E s \in Sockets : Disconnect(s)
  \/ Tick

Spec == Init /\ [][Next]_vars

\* ======================================================================
\* Properties
\* ======================================================================
NumHumans == Len(HumanPlayers(players))
NumBots == Len(Bots(players))
Neg(d) == [dx |-> -d.dx, dy |-> -d.dy]
NonZero(d) == ~(d.dx = 0 /\ d.dy = 0)
InGrid(c) == c.x \in Coords /\ c.y \in Coords
Emitted(e) == \E k \in 1..Len(emitted) : emitted[k] = e

\* C1: a join_game received while the room holds maxPlayers entities is
\* answered with room_full only; players, foods, botCounter and the tick
\* loop are unchanged.
C1_FullRoomRejectsJoin ==
  [][ (op'.name = "join_game" /\ Len(players) >= maxPlayers)
        => /\ emitted' = << Ev("room_full", SocketId(op'.sock), NULL) >>
           /\ UNCHANGED <<players, foods, botCounter, gameLoop, timers>> ]_vars

\* A join was answered with room_full while a human is playing.
C1_Witness ==
  /\ op.name = "join_game"
  /\ emitted = << Ev("room_full", SocketId(op.sock), NULL) >>
  /\ Len(players) = maxPlayers
  /\ NumHumans = 1

\* C2: the first join into an empty room with no loop running ends with
\* exactly one human (body length 1, alive, score 0, heading (0,0)),
\* maxPlayers - 1 bots, and the tick loop running.
C2_FirstJoinFillsRoom ==
  [][ (op'.name = "join_game" /\ Len(players) = 0 /\ gameLoop = NULL)
        => /\ Len(HumanPlayers(players')) = 1
           /\ LET h == HumanPlayers(players')[1]
              IN /\ h.id = SocketId(op'.sock)
                 /\ Len(h.snake) = 1
                 /\ h.alive
                 /\ h.score = 0
                 /\ h.direction = [dx |-> 0, dy |-> 0]
           /\ Len(Bots(players')) = maxPlayers - 1
           /\ gameLoop' # NULL
           /\ timers' = {gameLoop'} ]_vars

\* The first join of a fresh room has just been handled.
C2_Witness ==
  /\ op.name = "join_game"
  /\ emitted[1] = Ev("game_joined", SocketId(op.sock), NULL)
  /\ botCounter = maxPlayers - 1
  /\ NumHumans = 1
  /\ gameLoop # NULL

\* C3: when the last human disconnects while the tick loop is running, the
\* handler ends with no entities and the loop stopped (handle null, no timer).
C3_LastHumanLeaves ==
  [][ ( /\ op'.name = "disconnect"
        /\ gameLoop # NULL
        /\ Len(HumanPlayers(players)) = 1
        /\ HumanPlayers(players)[1].id = SocketId(op'.sock) )
        => /\ players' = << >>
           /\ gameLoop' = NULL
           /\ timers' = {} ]_vars

\* A room that was filled has been emptied by a disconnect.
C3_Witness ==
  /\ op.name = "disconnect"
  /\ Emitted(Ev("player_left", SocketId(op.sock), NULL))
  /\ players = << >>
  /\ gameLoop = NULL
  /\ botCounter >= maxPlayers

\* C4: between handlers, a room without a human entity has no entity at all
\* (bots never persist alone).
C4_BotsNeverAlone == (NumHumans = 0) => (players = << >>)

\* C5 as stated: after every join or leave, the number of bots is
\* maxPlayers - humanCount.
C5_BotsFillRoomAlways ==
  (op.name \in {"join_game", "disconnect"}) => (NumBots = maxPlayers - NumHumans)

\* C5 amended: after every join or leave that leaves at least one human in
\* the room, the number of bots is maxPlayers - humanCount.
C5_BotsFillRoomWithHumans ==
  (op.name \in {"join_game", "disconnect"} /\ NumHumans >= 1)
    => (NumBots = maxPlayers - NumHumans)

\* A leave event was handled while a human stays in the room.
C5_Witness ==
  /\ op.name = "disconnect"
  /\ NumHumans = 1
  /\ NumBots = maxPlayers - 1

\* C6: for an alive human with non-zero heading h, the heading after a
\* player_move is never -h, and the request -h leaves the room unchanged.
C6_NoReversal ==
  [][ \A s \in Sockets :
        LET i == MapIndex(players, SocketId(s)) IN
        (i # 0 /\ players[i].alive /\ NonZero(players[i].direction))
          => /\ (op'.name = "player_move" /\ op'.sock = s)
                  => /\ Len(players') = Len(players)
                     /\ players'[i].direction # Neg(players[i].direction)
             /\ PlayerMove(s, Neg(players[i].direction)) => players' = players ]_vars

\* A player_move was handled for an alive human that is moving.
C6_Witness ==
  /\ op.name = "player_move"
  /\ LET i == MapIndex(players, SocketId(op.sock)) IN
       i # 0 /\ players[i].alive /\ NonZero(players[i].direction)

\* C7: a player_move from a connection without an entity, or with a dead
\* one, emits nothing and changes nothing in the room.
C7_IgnoredMoveIsNoOp ==
  [][ ( /\ op'.name = "player_move"
        /\ LET i == MapIndex(players, SocketId(op'.sock)) IN
             i = 0 \/ ~players[i].alive )
        => /\ emitted' = << >>
           /\ UNCHANGED <<players, foods, gameLoop, timers, botCounter>> ]_vars

\* A player_move was handled for a dead human.
C7_Witness ==
  /\ op.name = "player_move"
  /\ LET i == MapIndex(players, SocketId(op.sock)) IN
       i # 0 /\ ~players[i].alive

\* C8: in every tick, an entity that is alive after the tick has its body
\* length unchanged (no food eaten) or increased by one (food eaten), never 0.
C8_LengthStep ==
  [][ (op'.name = "tick")
        => /\ Len(players') = Len(players)
           /\ \A i \in 1..Len(players) :
                players'[i].alive
                  => /\ Len(players'[i].snake) >= 1
                     /\ Len(players'[i].snake) - Len(players[i].snake) \in {0, 1}
                     /\ Len(players'[i].snake) - Len(players[i].snake)
                          = players'[i].score - players[i].score ]_vars

\* After a tick an alive entity has grown, another alive one has moved
\* without growing.
C8_Witness ==
  /\ op.name = "tick"
  /\ \E i, j \in 1..Len(players) :
       /\ players[i].alive /\ Len(players[i].snake) = 2
       /\ players[j].alive /\ Len(players[j].snake) = 1

\* C9: the room always holds the configured number of foods, each on a
\* cell of the grid.
C9_FoodCount ==
  /\ Len(foods) = Len(InitFoods)
  /\ \A k \in 1..Len(foods) : InGrid(foods[k])

\* A food has been eaten and replaced.
C9_Witness ==
  /\ \E i \in 1..Len(players) : players[i].score > 0
  /\ foods # InitFoods

\* Every body cell of every entity is on the grid.
BodiesInGrid ==
  \A i \in 1..Len(players) :
    \A k \in 1..Len(players[i].snake) : InGrid(players[i].snake[k])

\* C10: an alive entity whose head plus heading is off the grid at a tick
\* dies in that tick, player_died with killer null is emitted and its body
\* is unchanged; every body cell is on the grid after every step (the room
\* starts without entities).
C10_WallDeath ==
  [][ /\ BodiesInGrid'
      /\ (op'.name = "tick")
           => \A i \in 1..Len(players) :
                (Moving(players[i]) /\ ~InGrid(NewHead(players[i])))
                  => /\ ~players'[i].alive
                     /\ players'[i].snake = players[i].snake
                     /\ \E k \in 1..Len(emitted') :
                          emitted'[k] = Ev("player_died", players[i].id, NULL) ]_vars

\* A one-cell entity has just died with killer null: it ran into the wall.
C10_Witness ==
  /\ op.name = "tick"
  /\ \E i \in 1..Len(players) :
       /\ ~players[i].alive
       /\ Len(players[i].snake) = 1
       /\ ~InGrid(NewHead(players[i]))
       /\ Emitted(Ev("player_died", players[i].id, NULL))

\* ----------------------------------------------------------------------
\* A Tick step seen from its two ends.  Entities are stepped in index
\* order and only the entity being stepped changes its own body and alive
\* flag, so when entity i is stepped an earlier entity j < i already has its
\* body and alive flag of the end of the tick, and a later one j > i still
\* has those of the start.
IsTick == op'.name = "tick"
EmittedNext(e) == \E k \in 1..Len(emitted') : emitted'[k] = e
CellIn(snake, h) == \E k \in 1..Len(snake) : snake[k].x = h.x /\ snake[k].y = h.y

\* The body of j that i is tested against; empty when j is dead at that time.
BodyFacing(i, j) ==
  IF j < i
    THEN IF players'[j].alive THEN players'[j].snake ELSE << >>
    ELSE IF players[j].alive THEN players[j].snake ELSE << >>

\* Entity i is alive with a non-zero heading when the tick starts.
Moves(i) == players[i].alive /\ NonZero(players[i].direction)

\* The new head of i is a cell of its own body.
HitsItself(i) == CellIn(players[i].snake, NewHead(players[i]))

\* Entity i moves, stays on the grid and misses its own body.
ReachesOthers(i) ==
  /\ Moves(i)
  /\ InGrid(NewHead(players[i]))
  /\ ~HitsItself(i)

\* The new head of i lands on the body of j.
HitsBody(i, j) ==
  /\ j # i
  /\ ReachesOthers(i)
  /\ CellIn(BodyFacing(i, j), NewHead(players[i]))

Hitters(j) == { i \in 1..Len(players) : HitsBody(i, j) }
Hit(i) == { j \in 1..Len(players) : HitsBody(i, j) }
LastHit(i) == CHOOSE j \in Hit(i) : \A m \in Hit(i) : m <= j

\* C11 as stated: when the new head of A lands on the body of an alive B,
\* A dies in that tick, player_died names B as the killer, and the kills of
\* B grow by one for that death.
C11_KillerIsTheBodyHit ==
  [][ IsTick => \A i, j \in 1..Len(players) :
        HitsBody(i, j)
          => /\ ~players'[i].alive
             /\ EmittedNext(Ev("player_died", players[i].id, players[j].id))
             /\ players'[j].kills = players[j].kills + Cardinality(Hitters(j)) ]_vars

\* What updateGame does: A dies and keeps its body, the kills of every alive
\* entity whose body holds the cell grow by one for that death, and the one
\* player_died of A names the last of them in iteration order as the killer.
C11_KillerIsLastBodyHit ==
  [][ IsTick => \A i, j \in 1..Len(players) :
        HitsBody(i, j)
          => /\ ~players'[i].alive
             /\ players'[i].snake = players[i].snake
             /\ EmittedNext(Ev("player_died", players[i].id, players[LastHit(i)].id))
             /\ \A e \in {emitted'[k] : k \in 1..Len(emitted')} :
                  (e.ev = "player_died" /\ e.id = players[i].id)
                    => e.killer = players[LastHit(i)].id
             /\ players'[j].kills = players[j].kills + Cardinality(Hitters(j)) ]_vars

\* An entity has just died on the body of another, which got the kill.
C11_Witness ==
  /\ op.name = "tick"
  /\ \E i, j \in 1..Len(players) :
       /\ ~players[i].alive
       /\ players[j].alive
       /\ players[j].kills = 1
       /\ Emitted(Ev("player_died", players[i].id, players[j].id))
       /\ CellIn(players[j].snake, NewHead(players[i]))

\* Entity i grew in this tick, i.e. it ate a food.
Grew(i) == Len(players'[i].snake) > Len(players[i].snake)

\* Entity i survives its step and its new head is on a food that no earlier
\* entity has replaced in this tick.
EatsAt(i, k) ==
  /\ Moves(i)
  /\ players'[i].alive
  /\ \A j \in 1..(i - 1) : ~Grew(j)
  /\ k = FoodAt(foods, NewHead(players[i]))
  /\ k # 0

\* Score, body and food types after a food has been eaten.
AteFood(i) ==
  /\ players'[i].score = players[i].score + 1
  /\ players'[i].snake = << NewHead(players[i]) >> \o players[i].snake
  /\ Len(foods') = Len(foods)
  /\ \A m \in 1..Len(foods) : foods'[m].type = foods[m].type

\* No entity after i has eaten in this tick.
LastEater(i) == \A j \in (i + 1)..Len(players) : ~Grew(j)

\* C12 as stated: a surviving entity whose new head is on a food scores one,
\* grows by one cell, and that food moves to a different cell with its type
\* preserved.
C12_FoodMovesElsewhere ==
  [][ IsTick => \A i \in 1..Len(players), k \in 1..Len(foods) :
        EatsAt(i, k)
          => /\ AteFood(i)
             /\ LastEater(i)
                  => /\ \A m \in 1..Len(foods) : m # k => foods'[m] = foods[m]
                     /\ ~(foods'[k].x = foods[k].x /\ foods'[k].y = foods[k].y) ]_vars

\* C12 amended: a surviving entity whose new head is on a food scores one,
\* grows by one cell, and that food is placed on a cell of the grid drawn at
\* random, which may be the cell it was on, with its type preserved.
C12_FoodRespawns ==
  [][ IsTick => \A i \in 1..Len(players), k \in 1..Len(foods) :
        EatsAt(i, k)
          => /\ AteFood(i)
             /\ LastEater(i)
                  => /\ \A m \in 1..Len(foods) : m # k => foods'[m] = foods[m]
                     /\ InGrid(foods'[k]) ]_vars

\* After the first tick an alive entity has eaten the banana: it has one
\* point and two cells, its head on the cell where the banana was.
C12_Witness ==
  /\ op.name = "tick"
  /\ ticks = 1
  /\ \E i \in 1..Len(players) :
       /\ players[i].alive
       /\ players[i].score = 1
       /\ Len(players[i].snake) = 2
       /\ players[i].snake[1] = [x |-> InitFoods[2].x, y |-> InitFoods[2].y]
       /\ foods[2].type = "banana"

\* C13: between handlers the tick loop runs exactly when a human is in the
\* room, room.gameLoop is the handle of the one active timer, and there is
\* never more than one active timer.
C13_LoopIffHuman ==
  /\ (timers # {}) <=> (NumHumans >= 1)
  /\ timers = IF gameLoop = NULL THEN {} ELSE {gameLoop}
  /\ Cardinality(timers) <= 1

\* A join_game has just been handled while the loop was running.
C13_Witness ==
  /\ op.name = "join_game"
  /\ Emitted(Ev("room_full", SocketId(op.sock), NULL))
  /\ gameLoop # NULL
  /\ NumHumans = 1

\* C14: an entity that is dead and stays in the room keeps alive = false,
\* and its body, heading, score and kills, through every handler.
C14_DeathIsTerminal ==
  [][ \A i \in 1..Len(players) :
        (~players[i].alive /\ MapHas(players', players[i].id))
          => LET q == players'[MapIndex(players', players[i].id)]
             IN /\ ~q.alive
                /\ q.snake = players[i].snake
                /\ q.direction = players[i].direction
                /\ q.score = players[i].score
                /\ q.kills = players[i].kills ]_vars

\* A tick has just run over an entity that had died before it, with a
\* heading that would have moved it.
C14_Witness ==
  /\ op.name = "tick"
  /\ \E i \in 1..Len(players) :
       /\ ~players[i].alive
       /\ NonZero(players[i].direction)
       /\ \A k \in 1..Len(emitted) :
            ~(emitted[k].ev = "player_died" /\ emitted[k].id = players[i].id)

\* C15: an entity is spectating exactly when it is a dead human; a bot is
\* never spectating.
C15_SpectatingIffDeadHuman ==
  \A i \in 1..Len(players) :
    /\ players[i].spectating <=> (~players[i].isBot /\ ~players[i].alive)
    /\ players[i].isBot => ~players[i].spectating

\* The human is dead and spectating next to a dead bot.
C15_Witness ==
  /\ \E i \in 1..Len(players) :
       ~players[i].isBot /\ ~players[i].alive /\ players[i].spectating
  /\ \E i \in 1..Len(players) :
       players[i].isBot /\ ~players[i].alive /\ ~players[i].spectating

\* C16 as stated: the heading a bot moves with in a tick is the one the AI
\* computes from the heads and foods at the start of that tick: a bot that
\* is alive after the tick has its head one step in that heading, and a bot
\* that died in the tick met a wall or a body one step in that heading.
C16_AIBeforeMove ==
  [][ IsTick => \A i \in 1..Len(players) :
        (players[i].isBot /\ players[i].alive)
          => LET d == BotDirection(players[i], foods)
                 h == Shift(players[i].snake[1], d)
             IN /\ players'[i].alive => players'[i].snake[1] = h
                /\ ~players'[i].alive
                     => \/ ~InGrid(h)
                        \/ CellIn(players[i].snake, h)
                        \/ \E j \in 1..Len(players) :
                             j # i /\ CellIn(BodyFacing(i, j), h) ]_vars

\* What updateGame does: every bot moves with the heading it had when the
\* tick started, and the AI sets the next heading from the heads and foods
\* the moves have produced.
C16_AIAfterMove ==
  [][ IsTick => \A i \in 1..Len(players) :
        (players[i].isBot /\ players[i].alive)
          => /\ players'[i].alive
                  => /\ players'[i].snake[1] = NewHead(players[i])
                     /\ players'[i].direction
                          = BotDirection([players'[i] EXCEPT !.direction = players[i].direction],
                                         foods')
             /\ ~players'[i].alive => players'[i].direction = players[i].direction ]_vars

\* Every alive body is free of duplicate cells.
NoDuplicateCells ==
  \A i \in 1..Len(players) :
    players[i].alive
      => \A k, m \in 1..Len(players[i].snake) :
           k # m => players[i].snake[k] # players[i].snake[m]

\* The player_died events of entity i in the tick all carry killer.
DiedBy(i, killer) ==
  /\ EmittedNext(Ev("player_died", players[i].id, killer))
  /\ \A k \in 1..Len(emitted') :
       (emitted'[k].ev = "player_died" /\ emitted'[k].id = players[i].id)
         => emitted'[k].killer = killer

\* C17: no alive body ever holds a cell twice; an entity whose in-bounds new
\* head is a cell of its own body dies in that tick with killer null, keeps
\* its body, and is a kill for nobody.
C17_SelfCollision ==
  [][ /\ NoDuplicateCells'
      /\ IsTick => \A i \in 1..Len(players) :
           (Moves(i) /\ InGrid(NewHead(players[i])) /\ HitsItself(i))
             => /\ ~players'[i].alive
                /\ players'[i].snake = players[i].snake
                /\ DiedBy(i, NULL)
                /\ \A j \in 1..Len(players) :
                     /\ i \notin Hitters(j)
                     /\ players'[j].kills = players[j].kills + Cardinality(Hitters(j)) ]_vars

\* The human has just died by its own body: two cells long, it stepped back
\* onto its second cell.
C17_Witness ==
  /\ op.name = "tick"
  /\ \E i \in 1..Len(players) :
       /\ ~players[i].alive
       /\ Len(players[i].snake) >= 2
       /\ NewHead(players[i]) = players[i].snake[2]
       /\ Emitted(Ev("player_died", players[i].id, NULL))
       /\ \A j \in 1..Len(players) : players[j].kills = 0

\* The body of j is that of a dead entity when i is stepped, and holds the
\* new head of i.
OnDeadBody(i, j) ==
  /\ j # i
  /\ BodyFacing(i, j) = << >>
  /\ CellIn(IF j < i THEN players'[j].snake ELSE players[j].snake, NewHead(players[i]))

\* C18: an entity whose in-bounds new head is on the body of a dead entity,
\* on no alive body and not on its own, survives and moves there; the step
\* is a kill for nobody: every entity's kills grow by the number of entities
\* that died on its body while it was alive, and by nothing else.
C18_DeadBodiesAreNoObstacle ==
  [][ IsTick => \A i, j \in 1..Len(players) :
        (ReachesOthers(i) /\ OnDeadBody(i, j) /\ Hit(i) = {})
          => /\ players'[i].alive
             /\ players'[i].snake[1] = NewHead(players[i])
             /\ ~(\E k \in 1..Len(emitted') :
                    emitted'[k].ev = "player_died" /\ emitted'[k].id = players[i].id)
             /\ i \notin Hitters(j)
             /\ \A m \in 1..Len(players) :
                  players'[m].kills = players[m].kills + Cardinality(Hitters(m)) ]_vars

\* After a tick an alive entity that has moved has its head on the body of
\* an entity that was dead before the tick.
C18_Witness ==
  /\ op.name = "tick"
  /\ \E i, j \in 1..Len(players) :
       /\ i # j
       /\ players[i].alive
       /\ NonZero(players[i].direction)
       /\ ~players[j].alive
       /\ CellIn(players[j].snake, players[i].snake[1])
       /\ \A k \in 1..Len(emitted) :
            ~(emitted[k].ev = "player_died" /\ emitted[k].id = players[j].id)

\* C19: entities are stepped in iteration order against the bodies as they
\* are at that moment: an entity that reaches the test against the others
\* survives exactly when its new head is on no alive body, where an entity
\* stepped earlier counts with its body after its own step and one stepped
\* later with its body before it; and two entities never die on each other
\* in one tick.
C19_IterationOrder ==
  [][ IsTick =>
        /\ \A i \in 1..Len(players) :
             ReachesOthers(i) => (players'[i].alive <=> Hit(i) = {})
        /\ \A i, j \in 1..Len(players) :
             ~(/\ i # j
               /\ EmittedNext(Ev("player_died", players[i].id, players[j].id))
               /\ EmittedNext(Ev("player_died", players[j].id, players[i].id))) ]_vars

\* The first entity has moved and is alive; a later entity has died in the
\* same tick on the first one's new head.
C19_Witness ==
  /\ op.name = "tick"
  /\ \E a, b \in 1..Len(players) :
       /\ a < b
       /\ players[a].alive
       /\ NonZero(players[a].direction)
       /\ ~players[b].alive
       /\ Emitted(Ev("player_died", players[b].id, players[a].id))
       /\ NewHead(players[b]) = players[a].snake[1]

\* C20: the heading the AI gives a bot in a tick is never the reversal of
\* the heading the bot had before it.
C20_BotNeverReverses ==
  [][ IsTick => \A i \in 1..Len(players) :
        (players[i].isBot /\ players'[i].alive)
          => /\ NonZero(players'[i].direction)
             /\ players'[i].direction # Neg(players[i].direction) ]_vars

\* After a tick an alive bot stands at the top wall heading away from its
\* former heading (1,0): the AI has turned it.
C20_Witness ==
  /\ op.name = "tick"
  /\ \E i \in 1..Len(players) :
       /\ players[i].isBot
       /\ players[i].alive
       /\ players[i].direction \notin {[dx |-> 1, dy |-> 0]}
       /\ InGrid(Shift(players[i].snake[1], players[i].direction))
       /\ ~InGrid(Shift(players[i].snake[1], [dx |-> 1, dy |-> 0]))

\* The next step of p with its present heading stays on the grid.
StepInGrid(p) == InGrid(Shift(p.snake[1], p.direction))

\* Entity i dies in the tick with killer null and not on its own body: it
\* left the grid.
WallDeath(i) ==
  /\ players[i].alive
  /\ ~players'[i].alive
  /\ ~HitsItself(i)
  /\ EmittedNext(Ev("player_died", players[i].id, NULL))

\* C21: after a tick every alive bot has a heading whose next step is on the
\* grid; no other handler takes that away from a bot; and a bot that has it
\* does not die at the wall.  So a bot dies at the wall only in a tick that
\* no AI pass over that bot has preceded.
C21_BotAvoidsWall ==
  [][ /\ IsTick => \A i \in 1..Len(players) :
           (players'[i].isBot /\ players'[i].alive) => StepInGrid(players'[i])
      /\ \A i \in 1..Len(players) :
           (players[i].isBot /\ players[i].alive /\ StepInGrid(players[i]))
             => /\ IsTick => ~WallDeath(i)
                /\ MapHas(players', players[i].id)
                     => LET q == players'[MapIndex(players', players[i].id)]
                        IN q.alive => StepInGrid(q) ]_vars

\* After the first tick of a room one bot has died at the right wall with
\* its spawn heading, and another one is alive and has been turned away
\* from the wall it stands at.
C21_Witness ==
  /\ op.name = "tick"
  /\ \E i \in 1..Len(players) :
       /\ players[i].isBot
       /\ ~players[i].alive
       /\ players[i].direction = [dx |-> 1, dy |-> 0]
       /\ ~StepInGrid(players[i])
       /\ Emitted(Ev("player_died", players[i].id, NULL))
  /\ \E i \in 1..Len(players) :
       /\ players[i].isBot
       /\ players[i].alive
       /\ players[i].snake[1].x = tileCount - 1
       /\ players[i].direction # [dx |-> 1, dy |-> 0]
       /\ StepInGrid(players[i])

\* C22: for every alive bot the food the AI targets is at minimal Manhattan
\* distance from the bot's head, and no food of lower index is as near.
C22_NearestFoodFirstFound ==
  \A i \in 1..Len(players) :
    (players[i].isBot /\ players[i].alive)
      => LET head == players[i].snake[1]
             k == NearestFood(foods, head)
         IN /\ k \in 1..Len(foods)
            /\ \A m \in 1..Len(foods) :
                 /\ Dist(head, foods[k]) <= Dist(head, foods[m])
                 /\ Dist(head, foods[m]) = Dist(head, foods[k]) => k <= m

\* An alive bot is equally far from the two foods, which are on different
\* cells, and targets the first; the second food has been eaten before.
C22_Witness ==
  /\ foods[2] # InitFoods[2]
  /\ \E i \in 1..Len(players) :
       /\ players[i].isBot /\ players[i].alive
       /\ Dist(players[i].snake[1], foods[1]) = Dist(players[i].snake[1], foods[2])
       /\ [x |-> foods[1].x, y |-> foods[1].y] # [x |-> foods[2].x, y |-> foods[2].y]
       /\ NearestFood(foods, players[i].snake[1]) = 1

\* C23: the room never holds more than maxPlayers entities; a join is
\* accepted only when fewer than maxPlayers entities are in the room, and a
\* handler spawns at most as many bots as there are free slots once the
\* joining entity has been added or the leaving one removed.
C23_RoomNeverOverfull ==
  [][ /\ Len(players') <= maxPlayers
      /\ (op'.name = "join_game" /\ EmittedNext(Ev("game_joined", SocketId(op'.sock), NULL)))
           => /\ Len(players) < maxPlayers
              /\ botCounter' - botCounter
                   <= maxPlayers - Len(MapSet(players, NewPlayer(op'.sock, [x |-> 0, y |-> 0], 0)))
      /\ op'.name = "disconnect"
           => botCounter' - botCounter
                <= maxPlayers - Len(MapDelete(players, SocketId(op'.sock)))
      /\ op'.name \notin {"join_game", "disconnect"} => botCounter' = botCounter ]_vars

\* A join has just been accepted and bots have filled the room to the brim.
C23_Witness ==
  /\ op.name = "join_game"
  /\ Emitted(Ev("game_joined", SocketId(op.sock), NULL))
  /\ Len(players) = maxPlayers
  /\ NumBots = maxPlayers - 1
  /\ botCounter = maxPlayers - 1

\* The handler that has just run served a socket with no entity in the room.
FromUnboundSocket == ~MapHas(players, SocketId(op'.sock))
JoinAccepted == EmittedNext(Ev("game_joined", SocketId(op'.sock), NULL))

\* C24 as stated: a join_game from a connection without an entity is
\* accepted whenever fewer than maxPlayers humans are in the room, bots or
\* not, and adds a human entity for it.
C24_JoinWhileHumansFit ==
  [][ (op'.name = "join_game" /\ FromUnboundSocket /\ NumHumans < maxPlayers)
        => /\ JoinAccepted
           /\ MapHas(players', SocketId(op'.sock))
           /\ Len(HumanPlayers(players')) = NumHumans + 1 ]_vars

\* What the handlers do: the first accepted join fills the room with bots
\* and the full test counts bots, so there is never a second human.
C24_AtMostOneHuman == NumHumans <= 1

\* C25 as stated: in a room without humans a join_game from a connection
\* without an entity is accepted and leaves the tick loop running.
C25_EmptyRoomAcceptsJoin ==
  [][ (op'.name = "join_game" /\ FromUnboundSocket /\ NumHumans = 0)
        => /\ JoinAccepted
           /\ gameLoop' # NULL
           /\ timers' # {} ]_vars

\* C26 as stated: the disconnect of a connection without an entity leaves
\* the entities, botCounter, the foods and the tick loop as they were.
C26_UnboundDisconnectIsNoOp ==
  [][ (op'.name = "disconnect" /\ FromUnboundSocket)
        => UNCHANGED <<players, botCounter, foods, gameLoop, timers>> ]_vars

\* C27 as stated: a human of two or more cells never steps with the
\* negation of the heading of its previous step, whose trace is the pair
\* head, neck of its body: its new head is never its neck.
C27_HumanNeverTurnsBack ==
  [][ IsTick => \A i \in 1..Len(players) :
        (~players[i].isBot /\ Moves(i) /\ Len(players[i].snake) >= 2)
          => /\ NewHead(players[i]) # players[i].snake[2]
             /\ players[i].direction
                  # Neg([dx |-> players[i].snake[1].x - players[i].snake[2].x,
                         dy |-> players[i].snake[1].y - players[i].snake[2].y]) ]_vars

\* C28: every entity, alive or dead, human or bot, has a body of score + 1
\* cells.
C28_LengthIsScorePlusOne ==
  \A i \in 1..Len(players) : Len(players[i].snake) = players[i].score + 1

\* The human and a bot have both eaten once and have two cells each; one
\* of the two is dead.
C28_Witness ==
  /\ \E i, j \in 1..Len(players) :
       /\ ~players[i].isBot /\ players[j].isBot
       /\ players[i].score = 1 /\ Len(players[i].snake) = 2
       /\ players[j].score = 1 /\ Len(players[j].snake) = 2
       /\ ~players[i].alive \/ ~players[j].alive

\* The bodies of the alive entities of ps are pairwise disjoint.
AliveDisjoint(ps) ==
  \A i, j \in 1..Len(ps) :
    (i # j /\ ps[i].alive /\ ps[j].alive)
      => \A k \in 1..Len(ps[i].snake) : ~CellIn(ps[j].snake, ps[i].snake[k])

\* C29: a tick that starts with the bodies of the alive entities pairwise
\* disjoint ends with the bodies of the entities still alive pairwise
\* disjoint.
C29_TickKeepsBodiesApart ==
  [][ (IsTick /\ AliveDisjoint(players)) => AliveDisjoint(players') ]_vars

\* After two ticks that both started with disjoint bodies: the human of two
\* cells and an alive bot are side by side, a third entity has died on one
\* of them.
C29_Witness ==
  /\ op.name = "tick"
  /\ ticks = 2
  /\ AliveDisjoint(players)
  /\ \E i, j, m \in 1..Len(players) :
       /\ i # j
       /\ players[i].alive /\ NonZero(players[i].direction) /\ Len(players[i].snake) = 2
       /\ players[j].alive /\ NonZero(players[j].direction)
       /\ ~players[m].alive
       /\ Emitted(Ev("player_died", players[m].id, players[i].id))

\* The bots of ps that are alive.
AliveBots(ps) == { i \in 1..Len(ps) : ps[i].isBot /\ ps[i].alive }

\* C30: a tick keeps every entity in its place in the room with its id,
\* isBot flag and color; and outside join_game and disconnect the number of
\* alive bots never grows.
C30_TickKeepsEntities ==
  [][ /\ IsTick
           => /\ Len(players') = Len(players)
              /\ \A i \in 1..Len(players) :
                   /\ players'[i].id = players[i].id
                   /\ players'[i].isBot = players[i].isBot
                   /\ players'[i].color = players[i].color
      /\ op'.name \notin {"join_game", "disconnect"}
           => /\ Len(players') = Len(players)
              /\ AliveBots(players') \subseteq AliveBots(players) ]_vars

\* After a tick a bot that died in it is still in the room.
C30_Witness ==
  /\ op.name = "tick"
  /\ Len(players) = maxPlayers
  /\ \E i \in 1..Len(players) :
       /\ players[i].isBot
       /\ ~players[i].alive
       /\ \E k \in 1..Len(emitted) :
            emitted[k].ev = "player_died" /\ emitted[k].id = players[i].id

====
